---- MODULE Spec2Model ----
(***************************************************************************)
(* A model of src/data/generate.py: the three directory-to-directory       *)
(* stages generate_specs, clip_audio and generate_dataset.                 *)
(*                                                                         *)
(* File names are sequences of tokens; "." and "," are tokens of their     *)
(* own, so that os.path.splitext, glob and the "{},{:.2f},{:.2f}" patterns *)
(* are computed on the names as the code computes them.  Times are         *)
(* integers in milliseconds; "{:.2f}" rounds them to hundredths.           *)
(* A directory is the sequence of its entries in the order in which        *)
(* os.walk / glob enumerate it; that order is arbitrary but stays the same *)
(* while the directory is unchanged.                                       *)
(***************************************************************************)
EXTENDS Integers, Sequences, FiniteSets, TLC

\* ------------------------------------------------------------------ bounds
MaxTabs == 2
MaxClips == 2
MaxRuns == 2
MaxSpecs == 2
MaxRaw == 2
MaxFiles == 2

\* ------------------------------------------------------- general helpers
RECURSIVE SeqsUpTo(_, _)
SeqsUpTo(S, n) ==
  IF n = 0 THEN {<<>>}
  ELSE LET P == SeqsUpTo(S, n - 1)
       IN  P \cup {Append(s, x) : s \in {p \in P : Len(p) = n - 1}, x \in S}

Range(s) == {s[i] : i \in DOMAIN s}

Max(S) == CHOOSE x \in S : \A y \in S : y <= x

InsertAt(s, pos, e) == SubSeq(s, 1, pos - 1) \o <<e>> \o SubSeq(s, pos, Len(s))

\* ------------------------------------------------------------ file names
Digit(d) == <<"0", "1", "2", "3", "4", "5", "6", "7", "8", "9">>[d + 1]

RECURSIVE IntStr(_)
IntStr(n) == IF n < 10 THEN <<Digit(n)>>
             ELSE IntStr(n \div 10) \o <<Digit(n % 10)>>

\* "{:.2f}" cutting the third decimal off instead of rounding.
Format2fCut(ms) ==
  LET h == ms \div 10
  IN  IntStr(h \div 100) \o <<".", Digit((h \div 10) % 10), Digit(h % 10)>>

\* "{:.2f}".format(t) for a time of ms milliseconds (no model time lies
\* half-way between two hundredths).
Format2f(ms) ==
  LET h == (ms + 5) \div 10
  IN  IntStr(h \div 100) \o <<".", Digit((h \div 10) % 10), Digit(h % 10)>>

CLIP_NAME_PATTERN(youtube_id, start_time, end_time) ==
  youtube_id \o <<",">> \o Format2f(start_time) \o <<",">> \o Format2f(end_time)

CLIP_SPEC_PATTERN_dash(youtube_id, start_time, end_time) ==
  youtube_id \o <<"-">> \o Format2f(start_time) \o <<"-">> \o Format2f(end_time)
    \o <<".", "json">>

CLIP_SPEC_PATTERN(youtube_id, start_time, end_time) ==
  youtube_id \o <<",">> \o Format2f(start_time) \o <<",">> \o Format2f(end_time)
    \o <<".", "json">>

\* os.path.splitext: <<root, ext>>; the extension starts at the last dot,
\* unless only dots precede it.
splitext(p) ==
  LET dots == {i \in DOMAIN p : p[i] = "."}
  IN  IF dots = {} THEN <<p, <<>>>>
      ELSE LET d == Max(dots)
           IN  IF \E i \in 1..(d - 1) : p[i] # "."
               THEN <<SubSeq(p, 1, d - 1), SubSeq(p, d, Len(p))>>
               ELSE <<p, <<>>>>

\* ------------------------------------------------------------ directories
Names(dir) == {dir[i].name : i \in DOMAIN dir}

IndexOf(dir, n) == CHOOSE i \in DOMAIN dir : dir[i].name = n

Read(dir, n) == dir[IndexOf(dir, n)].content

\* The directory as a set of <<name, content>> pairs, forgetting the order.
AsMap(dir) == {<<dir[i].name, dir[i].content>> : i \in DOMAIN dir}

\* Writing content c to file n: an existing entry keeps its place, a new
\* entry appears at place pos of the enumeration.
Put(dir, n, c, pos) ==
  IF n \in Names(dir) THEN [dir EXCEPT ![IndexOf(dir, n)].content = c]
  ELSE InsertAt(dir, pos, [name |-> n, content |-> c])

UniqueNames(dir) == \A i, j \in DOMAIN dir : dir[i].name = dir[j].name => i = j

basename(p) ==
  LET seps == {i \in DOMAIN p : p[i] = "/"}
  IN  IF seps = {} THEN p ELSE SubSeq(p, Max(seps) + 1, Len(p))

VARIABLES
  pc,               \* where the running stage is; "idle" between runs
  run,              \* number of runs started
  status,           \* how the last run ended, "running" during a run
  before,           \* the stage's output when the current run started
  history,          \* one record per finished run
  printed,          \* the lines printed by the current run
  tabs,             \* <theorytabs>: the documents, in enumeration order
  audio,            \* <audio>: a directory or a manifest file
  specs,            \* the directory of spec files
  raw_audio,        \* <raw_audio>: the file names, in enumeration order
  corrupt,          \* the raw audio files the cutter cannot read
  clipped,          \* the directory of clipped audio files
  container,        \* the TFRecords <output> file
  audio_names,      \* generate_specs: local audio_names
  theorytab_paths,  \* generate_specs: documents still to visit
  tab_clips,        \* generate_specs: clips the current tab still yields
  seen,             \* generate_specs: descriptors yielded so far in this run
  written,          \* generate_specs: spec files opened for writing, this run
  spec_filenames,   \* clip_audio: spec files still to visit
  calls,            \* clip_audio: cutter invocations of this run
  clips,            \* generate_dataset: local clips
  clip_names,       \* generate_dataset: keys of clips still to visit
  events            \* generate_dataset: what happened to the writer, this run

shared == <<pc, run, status, before, history, printed>>
gsIn == <<tabs, audio>>
gsLocal == <<audio_names, theorytab_paths, tab_clips, seen, written>>
caIn == <<raw_audio, corrupt>>
caLocal == <<spec_filenames, calls>>
gdLocal == <<clips, clip_names, events>>
vars == <<shared, gsIn, gsLocal, caIn, caLocal, gdLocal, specs, clipped, container>>

\* ----------------------------------------------------- the model's inputs
Descriptor(id, start, end, tonic) ==
  [audio_source |-> [youtube_id |-> id, start_time |-> start, end_time |-> end],
   key |-> [tonic |-> tonic]]

\* Two descriptors of video "a" whose times differ only in the third
\* decimal, and one of video "b".
ClipA == Descriptor(<<"a">>, 1000, 2000, 0)
ClipA2 == Descriptor(<<"a">>, 1004, 2000, 1)
ClipB == Descriptor(<<"b">>, 1000, 2000, 0)
Descriptors == {ClipA, ClipA2, ClipB}

\* A document: the parser raises on it (bad), or yields its clips.
Documents ==
  {[bad |-> TRUE, clips |-> <<>>]}
    \cup {[bad |-> FALSE, clips |-> c] : c \in SeqsUpTo(Descriptors, MaxClips)}

RECURSIVE TotalClips(_)
TotalClips(ts) == IF ts = <<>> THEN 0 ELSE Len(Head(ts).clips) + TotalClips(Tail(ts))

TabsSet == {ts \in SeqsUpTo(Documents, MaxTabs) : TotalClips(ts) <= MaxClips}

AudioA == <<"a", ".", "wav">>
AudioBClip == CLIP_NAME_PATTERN(<<"b">>, 1000, 2000) \o <<".", "ogg">>
AudioListings == {<<>>, <<AudioA>>, <<AudioBClip>>, <<AudioA, AudioBClip>>}

\* A directory of audio files, or a text file with one file name per line.
AudioSet ==
  {[kind |-> "dir", entries |-> l] : l \in AudioListings}
    \cup {[kind |-> "file", entries |-> [i \in DOMAIN l |-> l[i] \o <<"\n">>]]
            : l \in AudioListings}

\* <output> before the first run: empty, or holding a spec file of an
\* earlier run.
StaleSpecs ==
  {<<>>, <<[name |-> CLIP_SPEC_PATTERN(<<"a">>, 1000, 2000), content |-> <<ClipA2>>]>>}

\* ---------------------------------------------------------- generate_specs
generate_spec(clip) == clip

AudioNames(a) ==
  IF a.kind = "dir"
  THEN [i \in DOMAIN a.entries |-> splitext(basename(a.entries[i]))[1]]
  ELSE [i \in DOMAIN a.entries |-> splitext(a.entries[i])[1]]

ClipFilename(clip) ==
  CLIP_NAME_PATTERN(clip.audio_source.youtube_id, clip.audio_source.start_time,
                    clip.audio_source.end_time)

SpecFilename(clip) ==
  CLIP_SPEC_PATTERN(clip.audio_source.youtube_id, clip.audio_source.start_time,
                    clip.audio_source.end_time)

EligibleBoth(clip, names) ==
  /\ clip.audio_source.youtube_id \in Range(names)
  /\ ClipFilename(clip) \in Range(names)

Eligible(clip, names) ==
  \/ clip.audio_source.youtube_id \in Range(names)
  \/ ClipFilename(clip) \in Range(names)

\* open(path, 'w'): what is left of the file's old content.
OpenAppend(old) == old

OpenWrite(old) == <<>>

\* The places of the enumeration at which file n may turn up when created.
Places(dir, n) == IF n \in Names(dir) THEN {1} ELSE 1..(Len(dir) + 1)

\* The stage a program position belongs to.
StageOf(p) ==
  CASE p \in {"gs_tab", "gs_clip", "gs_dump"} -> "generate_specs"
    [] p \in {"ca_spec", "ca_cutting"} -> "clip_audio"
    [] OTHER -> "generate_dataset"

EndRun(s, out) ==
  /\ pc' = "idle"
  /\ status' = s
  /\ history' = Append(history, [stage |-> StageOf(pc), status |-> s,
                                 before |-> before, after |-> out])

AfterClip(rest) == IF rest = <<>> THEN "gs_tab" ELSE "gs_clip"

StartGenerateSpecs ==
  /\ pc = "idle"
  /\ run' = run + 1
  /\ pc' = "gs_tab"
  /\ status' = "running"
  /\ before' = AsMap(specs)
  /\ printed' = <<>>
  /\ audio_names' = AudioNames(audio)
  /\ theorytab_paths' = tabs
  /\ tab_clips' = <<>>
  /\ seen' = <<>>
  /\ written' = <<>>
  /\ UNCHANGED <<history, gsIn, caIn, caLocal, gdLocal, specs, clipped, container>>

\* A run of generate_specs, one of at most MaxRuns.
GenerateSpecs == run < MaxRuns /\ StartGenerateSpecs

GSParse ==
  /\ pc = "gs_tab"
  /\ theorytab_paths # <<>>
  /\ ~Head(theorytab_paths).bad
  /\ tab_clips' = Head(theorytab_paths).clips
  /\ theorytab_paths' = Tail(theorytab_paths)
  /\ pc' = AfterClip(Head(theorytab_paths).clips)
  /\ UNCHANGED <<run, status, before, history, printed, audio_names, seen, written,
                 gsIn, caIn, caLocal, gdLocal, specs, clipped, container>>

GSParseRaise ==
  /\ pc = "gs_tab"
  /\ theorytab_paths # <<>>
  /\ Head(theorytab_paths).bad
  /\ EndRun("raised", AsMap(specs))
  /\ UNCHANGED <<run, before, printed, gsIn, gsLocal, caIn, caLocal, gdLocal,
                 specs, clipped, container>>

GSSkip ==
  /\ pc = "gs_clip"
  /\ ~Eligible(Head(tab_clips), audio_names)
  /\ seen' = Append(seen, [clip |-> Head(tab_clips), wrote |-> FALSE])
  /\ tab_clips' = Tail(tab_clips)
  /\ pc' = AfterClip(Tail(tab_clips))
  /\ UNCHANGED <<run, status, before, history, printed, audio_names,
                 theorytab_paths, written, gsIn, caIn, caLocal, gdLocal,
                 specs, clipped, container>>

GSOpen ==
  /\ pc = "gs_clip"
  /\ Eligible(Head(tab_clips), audio_names)
  /\ LET clip == Head(tab_clips)
         spec_filename == SpecFilename(clip)
         old == IF spec_filename \in Names(specs) THEN Read(specs, spec_filename)
                ELSE <<>>
     IN  /\ printed' = Append(printed, ClipFilename(clip))
         /\ seen' = Append(seen, [clip |-> clip, wrote |-> TRUE])
         /\ written' = Append(written, spec_filename)
         /\ \E pos \in Places(specs, spec_filename) :
              specs' = Put(specs, spec_filename, OpenWrite(old), pos)
  /\ pc' = "gs_dump"
  /\ UNCHANGED <<run, status, before, history, audio_names, theorytab_paths,
                 tab_clips, gsIn, caIn, caLocal, gdLocal, clipped, container>>

GSDump ==
  /\ pc = "gs_dump"
  /\ LET clip == Head(tab_clips)
         spec_filename == SpecFilename(clip)
     IN  specs' = Put(specs, spec_filename,
                      Append(Read(specs, spec_filename), generate_spec(clip)), 1)
  /\ tab_clips' = Tail(tab_clips)
  /\ pc' = AfterClip(Tail(tab_clips))
  /\ UNCHANGED <<run, status, before, history, printed, audio_names,
                 theorytab_paths, seen, written, gsIn, caIn, caLocal, gdLocal,
                 clipped, container>>

GSReturn ==
  /\ pc = "gs_tab"
  /\ theorytab_paths = <<>>
  /\ EndRun("done", AsMap(specs))
  /\ UNCHANGED <<run, before, printed, gsIn, gsLocal, caIn, caLocal, gdLocal,
                 specs, clipped, container>>

\* The process is killed during a run; the files stay as they are.
GSInterrupt ==
  /\ pc \in {"gs_tab", "gs_clip", "gs_dump"}
  /\ EndRun("interrupted", AsMap(specs))
  /\ UNCHANGED <<run, before, printed, gsIn, gsLocal, caIn, caLocal, gdLocal,
                 specs, clipped, container>>

InitShared ==
  /\ pc = "idle"
  /\ run = 0
  /\ status = "none"
  /\ history = <<>>
  /\ printed = <<>>

InitLocals ==
  /\ audio_names = <<>>
  /\ theorytab_paths = <<>>
  /\ tab_clips = <<>>
  /\ seen = <<>>
  /\ written = <<>>
  /\ spec_filenames = <<>>
  /\ calls = <<>>
  /\ clips = <<>>
  /\ clip_names = <<>>
  /\ events = <<>>

InitGS ==
  /\ InitShared
  /\ InitLocals
  /\ tabs \in TabsSet
  /\ audio \in AudioSet
  /\ specs \in StaleSpecs
  /\ before = AsMap(specs)
  /\ raw_audio = <<>>
  /\ corrupt = {}
  /\ clipped = <<>>
  /\ container = [exists |-> FALSE, records |-> <<>>]

NextGS ==
  \/ GenerateSpecs
  \/ GSParse
  \/ GSParseRaise
  \/ GSSkip
  \/ GSOpen
  \/ GSDump
  \/ GSReturn

SpecGS == InitGS /\ [][NextGS]_vars

\* generate_specs with runs that are killed.
SpecGSKilled == InitGS /\ [][NextGS \/ GSInterrupt]_vars

\* -------------------------------------------------------------- clip_audio
SpecA == [name |-> SpecFilename(ClipA), content |-> <<ClipA>>]
SpecB == [name |-> SpecFilename(ClipB), content |-> <<ClipB>>]
\* A second spec file whose clip has the name of SpecA's clip.
SpecACopy == [name |-> <<"copy", ".", "json">>, content |-> <<ClipA2>>]
\* A spec file whose write was cut short: not a JSON document.
SpecPartial ==
  [name |-> SpecFilename(Descriptor(<<"b">>, 1000, 3000, 0)), content |-> <<>>]
SpecEntries == {SpecA, SpecB, SpecACopy, SpecPartial}

RawA == <<"a", ".", "wav">>
RawAOgg == <<"a", ".", "ogg">>
RawB == <<"b", ".", "wav">>
RawFiles == {RawA, RawAOgg, RawB}

NoRepeat(s) == \A i, j \in DOMAIN s : s[i] = s[j] => i = j

\* A clip left in <output> by an earlier run.
OldClip ==
  [name |-> ClipFilename(ClipA) \o <<".", "wav">>,
   content |-> [i |-> <<"old">>, ss |-> 1000, t |-> 1000, complete |-> TRUE]]

\* json.load: a file holds a JSON document if it holds exactly one.
IsJson(content) == Len(content) = 1

\* glob.glob(os.path.join(raw_audio, youtube_id + '.*')), in the order of
\* the directory's enumeration.
glob(listing, youtube_id) ==
  LET n == Len(youtube_id)
      Matches(f) == /\ Len(f) > n
                    /\ SubSeq(f, 1, n) = youtube_id
                    /\ f[n + 1] = "."
  IN  SelectSeq(listing, Matches)

\* len(raw_audio_filenames) == 0
NoAudioUnlessTwo(raw_audio_filenames) == Len(raw_audio_filenames) <= 1

NoAudio(raw_audio_filenames) == Len(raw_audio_filenames) = 0

\* The fixed flags of call1.
call1_flags_y == {"-loglevel error", "-y"}

call1_flags == {"-loglevel error", "-n"}

call2(raw_audio_extension) ==
  IF raw_audio_extension = <<"ogg">>
  THEN <<"-codec:a", "libvorbis", "-strict", "experimental">>
  ELSE <<>>

\* The command line of subprocess.run(call1 + call2 + call3) for a spec.
Command(spec, listing) ==
  LET youtube_id == spec.audio_source.youtube_id
      start_time == spec.audio_source.start_time
      end_time == spec.audio_source.end_time
      raw_audio_filename == glob(listing, youtube_id)[1]
      raw_audio_extension == splitext(raw_audio_filename)[2]
  IN  [flags |-> call1_flags,
       ss |-> start_time,
       t |-> end_time - start_time,
       i |-> raw_audio_filename,
       codec |-> call2(raw_audio_extension),
       out |-> CLIP_NAME_PATTERN(youtube_id, start_time, end_time)
                 \o raw_audio_extension]

\* os.makedirs(os.path.dirname(clip_filename), exist_ok=True): the files of
\* the directory stay as they are.
makedirs_remove(dir, clip_filename) ==
  SelectSeq(dir, LAMBDA e : e.name # clip_filename)

makedirs(dir, clip_filename) == dir

\* ffmpeg ends at once, with exit code 1 and without touching its output,
\* when told not to overwrite (-n) an output that exists, or when it cannot
\* read its input.
CutterRefuses(cmd, dir) ==
  \/ "-n" \in cmd.flags /\ cmd.out \in Names(dir)
  \/ cmd.i \in corrupt

\* The loop after a cutter call that returned returncode: the specs it
\* goes on with.
StopOnError(returncode, rest) == IF returncode # 0 THEN <<>> ELSE rest

Continue(returncode, rest) == rest

\* A cutter invocation: the spec file it is for, its command line, what
\* its output file held when it started, and its exit code (-1 while the
\* cutter runs).
Call(cmd, dir, rc) ==
  [spec |-> Head(spec_filenames), cmd |-> cmd,
   existed |-> cmd.out \in Names(dir),
   old |-> IF cmd.out \in Names(dir) THEN <<Read(dir, cmd.out)>> ELSE <<>>,
   returncode |-> rc]

StartClipAudio ==
  /\ pc = "idle"
  /\ run' = run + 1
  /\ status' = "running"
  /\ before' = AsMap(clipped)
  /\ spec_filenames' = [i \in DOMAIN specs |-> specs[i].name]
  /\ calls' = <<>>
  /\ IF Len(specs) = 0
     THEN /\ printed' = <<"No specs found.">>
          /\ pc' = "idle"
          /\ history' = Append(history, [stage |-> "clip_audio", status |-> "done",
                                         before |-> AsMap(clipped),
                                         after |-> AsMap(clipped)])
     ELSE /\ printed' = <<>>
          /\ pc' = "ca_spec"
          /\ UNCHANGED history
  /\ UNCHANGED <<gsIn, gsLocal, caIn, gdLocal, specs, clipped, container>>

\* A run of clip_audio, one of at most MaxRuns.
ClipAudio == run < MaxRuns /\ StartClipAudio

CALoadRaise ==
  /\ pc = "ca_spec"
  /\ spec_filenames # <<>>
  /\ ~IsJson(Read(specs, Head(spec_filenames)))
  /\ EndRun("raised", AsMap(clipped))
  /\ UNCHANGED <<run, before, printed, gsIn, gsLocal, caIn, caLocal, gdLocal,
                 specs, clipped, container>>

CASkip ==
  /\ pc = "ca_spec"
  /\ spec_filenames # <<>>
  /\ IsJson(Read(specs, Head(spec_filenames)))
  /\ NoAudio(glob(raw_audio, Read(specs, Head(spec_filenames))[1].audio_source.youtube_id))
  /\ spec_filenames' = Tail(spec_filenames)
  /\ UNCHANGED <<shared, calls, gsIn, gsLocal, caIn, gdLocal, specs, clipped, container>>

CACutRefused ==
  /\ pc = "ca_spec"
  /\ spec_filenames # <<>>
  /\ IsJson(Read(specs, Head(spec_filenames)))
  /\ LET spec == Read(specs, Head(spec_filenames))[1]
         dir == makedirs(clipped, Command(spec, raw_audio).out)
         cmd == Command(spec, raw_audio)
     IN  /\ ~NoAudio(glob(raw_audio, spec.audio_source.youtube_id))
         /\ CutterRefuses(cmd, dir)
         /\ clipped' = dir
         /\ calls' = Append(calls, Call(cmd, dir, 1))
         /\ printed' = Append(printed, [error |-> TRUE, returncode |-> 1,
                                        clip_filename |-> cmd.out])
         /\ spec_filenames' = Continue(1, Tail(spec_filenames))
  /\ UNCHANGED <<pc, run, status, before, history, gsIn, gsLocal, caIn, gdLocal,
                 specs, container>>

CACutBegin ==
  /\ pc = "ca_spec"
  /\ spec_filenames # <<>>
  /\ IsJson(Read(specs, Head(spec_filenames)))
  /\ LET spec == Read(specs, Head(spec_filenames))[1]
         dir == makedirs(clipped, Command(spec, raw_audio).out)
         cmd == Command(spec, raw_audio)
     IN  /\ ~NoAudio(glob(raw_audio, spec.audio_source.youtube_id))
         /\ ~CutterRefuses(cmd, dir)
         /\ calls' = Append(calls, Call(cmd, dir, -1))
         /\ \E pos \in Places(dir, cmd.out) :
              clipped' = Put(dir, cmd.out,
                             [i |-> cmd.i, ss |-> cmd.ss, t |-> cmd.t,
                              complete |-> FALSE], pos)
  /\ pc' = "ca_cutting"
  /\ UNCHANGED <<run, status, before, history, printed, spec_filenames,
                 gsIn, gsLocal, caIn, gdLocal, specs, container>>

CACutEnd ==
  /\ pc = "ca_cutting"
  /\ LET cmd == calls[Len(calls)].cmd
     IN  /\ clipped' = Put(clipped, cmd.out,
                           [Read(clipped, cmd.out) EXCEPT !.complete = TRUE], 1)
         /\ calls' = [calls EXCEPT ![Len(calls)].returncode = 0]
         /\ printed' = Append(printed, [error |-> FALSE, returncode |-> 0,
                                        clip_filename |-> cmd.out])
         /\ spec_filenames' = Continue(0, Tail(spec_filenames))
  /\ pc' = "ca_spec"
  /\ UNCHANGED <<run, status, before, history, gsIn, gsLocal, caIn, gdLocal,
                 specs, container>>

CAReturn ==
  /\ pc = "ca_spec"
  /\ spec_filenames = <<>>
  /\ EndRun("done", AsMap(clipped))
  /\ UNCHANGED <<run, before, printed, gsIn, gsLocal, caIn, caLocal, gdLocal,
                 specs, clipped, container>>

\* The process is killed during a run; the files stay as they are.
CAInterrupt ==
  /\ pc \in {"ca_spec", "ca_cutting"}
  /\ EndRun("interrupted", AsMap(clipped))
  /\ UNCHANGED <<run, before, printed, gsIn, gsLocal, caIn, caLocal, gdLocal,
                 specs, clipped, container>>

InitCA ==
  /\ InitShared
  /\ InitLocals
  /\ tabs = <<>>
  /\ audio = [kind |-> "dir", entries |-> <<>>]
  /\ specs \in {l \in SeqsUpTo(SpecEntries, MaxSpecs) : UniqueNames(l)}
  /\ raw_audio \in {l \in SeqsUpTo(RawFiles, MaxRaw) : NoRepeat(l)}
  /\ corrupt \in SUBSET ({RawA} \cap Range(raw_audio))
  /\ clipped \in {<<>>, <<OldClip>>}
  /\ before = AsMap(clipped)
  /\ container = [exists |-> FALSE, records |-> <<>>]

NextCA ==
  \/ ClipAudio
  \/ CALoadRaise
  \/ CASkip
  \/ CACutRefused
  \/ CACutBegin
  \/ CACutEnd
  \/ CAReturn
  \/ CAInterrupt

SpecCA == InitCA /\ [][NextCA]_vars

\* -------------------------------------------------------- generate_dataset
\* A second file of <specs> with the base name of SpecA.
SpecATxt == [name |-> ClipFilename(ClipA) \o <<".", "txt">>, content |-> <<ClipA2>>]
\* A spec file of clip B whose write was cut short.
SpecBPartial == [name |-> SpecFilename(ClipB), content |-> <<>>]
DatasetSpecEntries == {SpecA, SpecATxt, SpecB, SpecBPartial}

Audio(raw, clip) ==
  [i |-> raw, ss |-> clip.audio_source.start_time,
   t |-> clip.audio_source.end_time - clip.audio_source.start_time,
   complete |-> TRUE]

ClippedAWav == [name |-> ClipFilename(ClipA) \o <<".", "wav">>, content |-> Audio(RawA, ClipA)]
ClippedAOgg == [name |-> ClipFilename(ClipA) \o <<".", "ogg">>, content |-> Audio(RawAOgg, ClipA)]
ClippedBWav == [name |-> ClipFilename(ClipB) \o <<".", "wav">>, content |-> Audio(RawB, ClipB)]
ClippedEntries == {ClippedAWav, ClippedAOgg, ClippedBWav}

\* <output> before the first run: absent, or the container of an earlier run.
StaleContainers ==
  {[exists |-> FALSE, records |-> <<>>],
   [exists |-> TRUE, records |-> <<[clip_name |-> <<"old">>]>>]}

\* The key under which a file enters clips.
wholename(filename) == filename

root(filename) == splitext(filename)[1]

\* clips[root][field] = filename, on a defaultdict(dict) kept as the
\* sequence of its items in insertion order; an absent field is <<>>.
SetField(d, key, field, filename) ==
  IF \E k \in DOMAIN d : d[k].name = key
  THEN [d EXCEPT ![CHOOSE k \in DOMAIN d : d[k].name = key][field] = <<filename>>]
  ELSE Append(d, [[name |-> key, spec |-> <<>>, audio |-> <<>>]
                    EXCEPT ![field] = <<filename>>])

RECURSIVE AddFiles(_, _, _)
AddFiles(d, filenames, field) ==
  IF filenames = <<>> THEN d
  ELSE AddFiles(SetField(d, root(Head(filenames)), field, Head(filenames)),
                Tail(filenames), field)

\* 'audio' in clip and 'spec' in clip
Joined(clip) == clip.audio # <<>> /\ clip.spec # <<>>

\* generate_example: the record made of a spec file and a clipped audio file.
generate_example(clip) ==
  [clip_name |-> clip.name,
   spec_filename |-> clip.spec[1],
   audio_filename |-> clip.audio[1],
   tonic |-> Read(specs, clip.spec[1])[1].key.tonic,
   audio |-> Read(clipped, clip.audio[1])]

StartGenerateDataset ==
  /\ pc = "idle"
  /\ run' = run + 1
  /\ status' = "running"
  /\ before' = container
  /\ printed' = <<>>
  /\ clips' = AddFiles(AddFiles(<<>>, [i \in DOMAIN specs |-> specs[i].name], "spec"),
                       [i \in DOMAIN clipped |-> clipped[i].name], "audio")
  /\ clip_names' = clips'
  /\ container' = [exists |-> TRUE, records |-> <<>>]
  /\ events' = <<"open">>
  /\ pc' = "gd_clip"
  /\ UNCHANGED <<history, gsIn, gsLocal, caIn, caLocal, specs, clipped>>

\* A run of generate_dataset, one of at most MaxRuns.
GenerateDataset == run < MaxRuns /\ StartGenerateDataset

GDWrite ==
  /\ pc = "gd_clip"
  /\ clip_names # <<>>
  /\ Joined(Head(clip_names))
  /\ IsJson(Read(specs, Head(clip_names).spec[1]))
  /\ container' = [container EXCEPT
                     !.records = Append(@, generate_example(Head(clip_names)))]
  /\ events' = Append(events, "write")
  /\ printed' = Append(printed, Head(clip_names).name)
  /\ clip_names' = Tail(clip_names)
  /\ UNCHANGED <<pc, run, status, before, history, clips, gsIn, gsLocal, caIn,
                 caLocal, specs, clipped>>

GDRaise ==
  /\ pc = "gd_clip"
  /\ clip_names # <<>>
  /\ Joined(Head(clip_names))
  /\ ~IsJson(Read(specs, Head(clip_names).spec[1]))
  /\ EndRun("raised", container)
  /\ UNCHANGED <<run, before, printed, gsIn, gsLocal, caIn, caLocal, gdLocal,
                 specs, clipped, container>>

GDSkip ==
  /\ pc = "gd_clip"
  /\ clip_names # <<>>
  /\ ~Joined(Head(clip_names))
  /\ printed' = Append(printed, Head(clip_names).name)
  /\ clip_names' = Tail(clip_names)
  /\ UNCHANGED <<pc, run, status, before, history, clips, events, gsIn, gsLocal,
                 caIn, caLocal, specs, clipped, container>>

\* writer.close(), the statement after the loop.
close_omitted(ev) == ev

close(ev) == Append(ev, "close")

GDClose ==
  /\ pc = "gd_clip"
  /\ clip_names = <<>>
  /\ events' = close(events)
  /\ EndRun("done", container)
  /\ UNCHANGED <<run, before, printed, clips, clip_names, gsIn, gsLocal, caIn,
                 caLocal, specs, clipped, container>>

\* The process is killed during a run; the container stays as it is.
GDInterrupt ==
  /\ pc = "gd_clip"
  /\ EndRun("interrupted", container)
  /\ UNCHANGED <<run, before, printed, gsIn, gsLocal, caIn, caLocal, gdLocal,
                 specs, clipped, container>>

InitGD ==
  /\ InitShared
  /\ InitLocals
  /\ tabs = <<>>
  /\ audio = [kind |-> "dir", entries |-> <<>>]
  /\ raw_audio = <<>>
  /\ corrupt = {}
  /\ specs \in {l \in SeqsUpTo(DatasetSpecEntries, MaxFiles) : UniqueNames(l)}
  /\ clipped \in {l \in SeqsUpTo(ClippedEntries, MaxFiles) : UniqueNames(l)}
  /\ container \in StaleContainers
  /\ before = container

NextGD ==
  \/ GenerateDataset
  \/ GDWrite
  \/ GDRaise
  \/ GDSkip
  \/ GDClose
  \/ GDInterrupt

SpecGD == InitGD /\ [][NextGD]_vars

\* ---------------------------------------------------------- key derivation
\* Descriptors whose youtube_id holds a comma or a dot, and whose times the
\* two decimals round down, round up and carry.
KeyIds == {<<"a">>, <<"a", ",", "b">>, <<"a", ".", "b">>}
KeyDescriptors ==
  {Descriptor(id, start, end, 0) :
     id \in KeyIds, start \in {0, 1004, 12346}, end \in {20000, 61996}}

\* One audio file per youtube_id.
KeyAudio == <<<<"a", ".", "wav">>, <<"a", ",", "b", ".", "wav">>,
              <<"a", ".", "b", ".", "wav">>>>

InitKeys ==
  /\ InitShared
  /\ InitLocals
  /\ tabs \in {<<[bad |-> TRUE, clips |-> <<>>]>>}
                \cup {<<[bad |-> FALSE, clips |-> <<d>>]>> : d \in KeyDescriptors}
  /\ audio \in {[kind |-> "dir", entries |-> <<>>],
                [kind |-> "dir", entries |-> KeyAudio]}
  /\ specs = <<>>
  /\ before = AsMap(specs)
  /\ raw_audio = <<>>
  /\ corrupt = {}
  /\ clipped = <<>>
  /\ container = [exists |-> FALSE, records |-> <<>>]

\* generate_specs over documents of one descriptor each.
SpecKeys == InitKeys /\ [][NextGS]_vars

\* ------------------------------------------- clip_audio, more raw audio
\* A download of video "a" that was not finished.
RawAPart == <<"a", ".", "wav", ".", "part">>

InitCAParts ==
  /\ InitShared
  /\ InitLocals
  /\ tabs = <<>>
  /\ audio = [kind |-> "dir", entries |-> <<>>]
  /\ specs \in {l \in SeqsUpTo(SpecEntries, MaxSpecs) : UniqueNames(l)}
  /\ raw_audio \in {l \in SeqsUpTo(RawFiles \cup {RawAPart}, MaxRaw) : NoRepeat(l)}
  /\ corrupt \in SUBSET ({RawA} \cap Range(raw_audio))
  /\ clipped \in {<<>>, <<OldClip>>}
  /\ before = AsMap(clipped)
  /\ container = [exists |-> FALSE, records |-> <<>>]

\* clip_audio over a <raw_audio> that may hold files with two dots.
SpecCAParts == InitCAParts /\ [][NextCA]_vars

\* ------------------------------------------------ the two forms of <audio>
\* An audio file without an extension, beside files that have one.
AudioBare == <<"a">>
BareListings == {<<>>, <<AudioBare>>, <<AudioA>>, <<AudioBare, AudioBClip>>,
                 <<AudioA, AudioBClip>>}

InitGSNames ==
  /\ InitShared
  /\ InitLocals
  /\ tabs \in TabsSet
  /\ audio \in {[kind |-> "dir", entries |-> l] : l \in BareListings}
                 \cup {[kind |-> "file",
                        entries |-> [i \in DOMAIN l |-> l[i] \o <<"\n">>]]
                         : l \in BareListings}
  /\ specs = <<>>
  /\ before = AsMap(specs)
  /\ raw_audio = <<>>
  /\ corrupt = {}
  /\ clipped = <<>>
  /\ container = [exists |-> FALSE, records |-> <<>>]

\* generate_specs over audio names with and without an extension.
SpecGSNames == InitGSNames /\ [][NextGS]_vars

\* ------------------------------------------------------- the three stages
\* generate_specs, clip_audio and generate_dataset run once each, in this
\* order, from empty output directories; no run is killed, so every spec
\* file is whole and json.load never raises.  <theorytabs> holds at most
\* one document.
PipelineGenerateSpecs == Len(history) = 0 /\ StartGenerateSpecs

PipelineClipAudio == Len(history) = 1 /\ StartClipAudio

PipelineGenerateDataset == Len(history) = 2 /\ StartGenerateDataset

InitPipeline ==
  /\ InitShared
  /\ InitLocals
  /\ tabs \in {ts \in TabsSet : Len(ts) <= 1}
  /\ audio \in {a \in AudioSet : a.kind = "dir"}
  /\ specs = <<>>
  /\ before = AsMap(specs)
  /\ raw_audio \in {l \in SeqsUpTo(RawFiles, MaxRaw) : NoRepeat(l)}
  /\ corrupt \in SUBSET ({RawA} \cap Range(raw_audio))
  /\ clipped = <<>>
  /\ container = [exists |-> FALSE, records |-> <<>>]

NextPipeline ==
  \/ PipelineGenerateSpecs
  \/ GSParse
  \/ GSParseRaise
  \/ GSSkip
  \/ GSOpen
  \/ GSDump
  \/ GSReturn
  \/ PipelineClipAudio
  \/ CASkip
  \/ CACutRefused
  \/ CACutBegin
  \/ CACutEnd
  \/ CAReturn
  \/ PipelineGenerateDataset
  \/ GDWrite
  \/ GDSkip
  \/ GDClose

SpecPipeline == InitPipeline /\ [][NextPipeline]_vars

\* ================================================================ claims
\* ------------------------------------------------- generate_specs claims
Available == Range(audio_names)

WroteSet == {i \in DOMAIN seen : seen[i].wrote}

\* C1: every descriptor a document has yielded in this run has had its spec
\* file "{youtube_id},{start:.2f},{end:.2f}.json" written if and only if its
\* youtube_id or its composite name is among the available audio names; the
\* files the run has created or changed are those of eligible descriptors
\* only, and once the write is over (the run not having been killed) the
\* file holds a descriptor of that name.
C1_EligibleIffWritten ==
  /\ \A i \in DOMAIN seen :
       seen[i].wrote <=>
         \/ seen[i].clip.audio_source.youtube_id \in Available
         \/ CLIP_NAME_PATTERN(seen[i].clip.audio_source.youtube_id,
                              seen[i].clip.audio_source.start_time,
                              seen[i].clip.audio_source.end_time) \in Available
  /\ \A f \in AsMap(specs) \ before :
       \E i \in WroteSet : f[1] = ClipFilename(seen[i].clip) \o <<".", "json">>
  /\ Range(written) = {ClipFilename(seen[i].clip) \o <<".", "json">> : i \in WroteSet}
  /\ (pc # "gs_dump" /\ status # "interrupted") =>
       \A i \in WroteSet :
         /\ SpecFilename(seen[i].clip) \in Names(specs)
         /\ \E j \in WroteSet :
              /\ SpecFilename(seen[j].clip) = SpecFilename(seen[i].clip)
              /\ Read(specs, SpecFilename(seen[i].clip)) = <<seen[j].clip>>

\* A finished run in which one descriptor was written because of its
\* composite name alone and another one was skipped.
C1_Witness ==
  /\ status = "done"
  /\ \E i \in WroteSet : seen[i].clip.audio_source.youtube_id \notin Available
  /\ \E i \in DOMAIN seen : ~seen[i].wrote

\* C4: two consecutive complete runs of generate_specs leave the same spec
\* file names with the same contents.
C4_RerunSameFiles ==
  \A i \in 1..(Len(history) - 1) :
    (history[i].status = "done" /\ history[i + 1].status = "done")
      => history[i + 1].after = history[i].after

\* Two complete runs, in each of which two different descriptors were
\* written to the same spec file, and the first of which changed <output>.
C4_Witness ==
  /\ Len(history) = 2
  /\ history[1].status = "done"
  /\ history[2].status = "done"
  /\ history[1].before # history[1].after
  /\ \E i, j \in WroteSet :
       /\ seen[i].clip # seen[j].clip
       /\ SpecFilename(seen[i].clip) = SpecFilename(seen[j].clip)

\* C8: when a run is over, every document the parser can parse has had its
\* eligible descriptors written, whatever the parser did on other documents.
C8_ParseFailureIsolated ==
  status \in {"done", "raised"} =>
    \A t \in DOMAIN tabs :
      ~tabs[t].bad =>
        \A c \in Range(tabs[t].clips) :
          Eligible(c, audio_names) => SpecFilename(c) \in Range(written)

\* C10: within one run no spec file is opened for writing twice.
C10_WrittenOncePerRun ==
  \A i, j \in DOMAIN written : written[i] = written[j] => i = j

\* ----------------------------------------------------- clip_audio claims
\* The run in progress, or last finished, is a re-run after a complete run.
IsRerun == run >= 2 /\ history[1].status = "done"

CallsFor(spec_filename) == {i \in DOMAIN calls : calls[i].spec = spec_filename}

\* The spec has raw audio: a file of <raw_audio> is named youtube_id plus
\* an extension.
HasRawAudio(spec) ==
  \E f \in Range(raw_audio) : splitext(f)[1] = spec.audio_source.youtube_id

\* C3 as stated: in a re-run the cutter is not invoked for any clip whose
\* output file already exists.
C3_NoReinvocation ==
  IsRerun => \A i \in DOMAIN calls : ~calls[i].existed

\* C3 as amended: in a re-run the cutter is invoked again, once for every
\* spec with raw audio; an invocation whose output file already exists
\* carries -n, ends with a non-zero exit code and leaves the file as it was.
C3_RerunRefused ==
  IsRerun =>
    /\ \A i \in DOMAIN calls :
         calls[i].existed =>
           /\ "-n" \in calls[i].cmd.flags
           /\ calls[i].returncode # 0
           /\ calls[i].cmd.out \in Names(clipped)
           /\ <<Read(clipped, calls[i].cmd.out)>> = calls[i].old
    /\ status = "done" =>
         \A s \in DOMAIN specs :
           HasRawAudio(specs[s].content[1]) =>
             Cardinality(CallsFor(specs[s].name)) = 1

\* The second of two complete runs has invoked the cutter for a clip that
\* the first run had cut.
C3_Witness ==
  /\ run = 2
  /\ status = "done"
  /\ history[1].status = "done"
  /\ \E i \in DOMAIN calls :
       /\ calls[i].existed
       /\ \E f \in history[1].after \ history[1].before : f[1] = calls[i].cmd.out

\* What one complete run of clip_audio over the spec files of listing makes
\* of the output directory m (a set of <<name, content>> pairs).
RECURSIVE UninterruptedClipAudio(_, _)
UninterruptedClipAudio(listing, m) ==
  IF listing = <<>> \/ ~IsJson(Head(listing).content) THEN m
  ELSE LET spec == Head(listing).content[1]
           cmd == Command(spec, raw_audio)
       IN  IF \/ NoAudio(glob(raw_audio, spec.audio_source.youtube_id))
              \/ cmd.out \in {f[1] : f \in m}
              \/ cmd.i \in corrupt
           THEN UninterruptedClipAudio(Tail(listing), m)
           ELSE UninterruptedClipAudio(
                  Tail(listing),
                  m \cup {<<cmd.out, [i |-> cmd.i, ss |-> cmd.ss, t |-> cmd.t,
                                     complete |-> TRUE]>>})

\* What one complete run of generate_specs over the documents of listing
\* makes of the output directory m.
RECURSIVE UninterruptedGenerateSpecs(_, _)
UninterruptedGenerateSpecs(listing, m) ==
  IF listing = <<>> \/ Head(listing).bad THEN m
  ELSE IF Head(listing).clips = <<>>
       THEN UninterruptedGenerateSpecs(Tail(listing), m)
       ELSE LET clip == Head(Head(listing).clips)
                rest == <<[Head(listing) EXCEPT !.clips = Tail(@)]>> \o Tail(listing)
            IN  IF Eligible(clip, AudioNames(audio))
                THEN UninterruptedGenerateSpecs(
                       rest,
                       {f \in m : f[1] # SpecFilename(clip)}
                         \cup {<<SpecFilename(clip), <<generate_spec(clip)>>>>})
                ELSE UninterruptedGenerateSpecs(rest, m)

\* The records one complete run of generate_dataset writes for the clips
\* of listing.
RECURSIVE UninterruptedRecords(_)
UninterruptedRecords(listing) ==
  IF listing = <<>> THEN <<>>
  ELSE IF Joined(Head(listing))
       THEN <<generate_example(Head(listing))>> \o UninterruptedRecords(Tail(listing))
       ELSE UninterruptedRecords(Tail(listing))

Uninterrupted(stage, m) ==
  CASE stage = "generate_specs" -> UninterruptedGenerateSpecs(tabs, m)
    [] stage = "clip_audio" -> UninterruptedClipAudio(specs, m)
    [] stage = "generate_dataset" ->
         [exists |-> TRUE,
          records |-> UninterruptedRecords(
            AddFiles(AddFiles(<<>>, [i \in DOMAIN specs |-> specs[i].name], "spec"),
                     [i \in DOMAIN clipped |-> clipped[i].name], "audio"))]

\* C5: in each stage, a run that was interrupted and then re-run to
\* completion leaves the stage's output in the state that one uninterrupted
\* run would have left.
C5_RerunRecovers ==
  \A i \in 1..(Len(history) - 1) :
    (history[i].status = "interrupted" /\ history[i + 1].status = "done")
      => history[i + 1].after = Uninterrupted(history[i].stage, history[i].before)

\* C6: when a run of clip_audio is over, the cutter has been invoked exactly
\* once for every spec with raw audio and, where it succeeded and <output>
\* was empty at the start, exactly one clip "{youtube_id},{start:.2f},
\* {end:.2f}" plus the extension of a raw file of that video is there; it
\* has not been invoked for a spec without raw audio, for which no clip has
\* appeared; and the run raises only on a spec file that is no JSON.
\* (Holds in SpecCA, whose raw audio files are all named [id].[ext]; in
\* SpecCAParts the glob of C12 finds a file for a spec that has none.)
C6_OneCutPerSpecWithAudio ==
  /\ status = "raised" /\ run >= 1 =>
       \E s \in DOMAIN specs : ~IsJson(specs[s].content)
  /\ status = "done" =>
       \A s \in DOMAIN specs :
         LET spec == specs[s].content[1]
             key == CLIP_NAME_PATTERN(spec.audio_source.youtube_id,
                                      spec.audio_source.start_time,
                                      spec.audio_source.end_time)
             made == {n \in Names(clipped) : splitext(n)[1] = key}
         IN  IF HasRawAudio(spec)
             THEN /\ Cardinality(CallsFor(specs[s].name)) = 1
                  /\ \A i \in CallsFor(specs[s].name) :
                       (calls[i].returncode = 0 /\ before = {}) =>
                         /\ Cardinality(made) = 1
                         /\ \A n \in made :
                              /\ Read(clipped, n).complete
                              /\ \E f \in Range(raw_audio) :
                                   /\ splitext(f)[1] = spec.audio_source.youtube_id
                                   /\ n = key \o splitext(f)[2]
             ELSE /\ CallsFor(specs[s].name) = {}
                  /\ \A n \in made : \E f \in before : f[1] = n

\* A complete run over an empty <output> that skipped one spec for want of
\* raw audio and then cut the clip of a later one.
C6_Witness ==
  /\ status = "done"
  /\ before = {}
  /\ \E s, t \in DOMAIN specs :
       /\ s < t
       /\ ~HasRawAudio(specs[s].content[1])
       /\ \E i \in CallsFor(specs[t].name) : calls[i].returncode = 0

\* C7: every cutter invocation that has ended is reported with its clip
\* file name, as an error with the exit code when that is not 0; and when
\* the run is over every spec with raw audio that comes after a failed
\* invocation has had its own invocation.
C7_FailureReportedAndContinues ==
  /\ \A i \in DOMAIN calls :
       calls[i].returncode # -1 =>
         /\ i \in DOMAIN printed
         /\ printed[i].clip_filename = calls[i].cmd.out
         /\ printed[i].error <=> calls[i].returncode # 0
         /\ printed[i].returncode = calls[i].returncode
  /\ status = "done" =>
       \A s, t \in DOMAIN specs :
         (/\ s < t
          /\ \E i \in CallsFor(specs[s].name) : calls[i].returncode # 0
          /\ HasRawAudio(specs[t].content[1]))
           => CallsFor(specs[t].name) # {}

\* A complete run in which an invocation failed and a later one succeeded.
C7_Witness ==
  /\ status = "done"
  /\ \E i, j \in DOMAIN calls :
       /\ i < j
       /\ calls[i].returncode = 1
       /\ calls[j].returncode = 0

\* C9: the clips that were in <output> when the run started are there with
\* the same content, during the run and after it, and every cutter
\* invocation carries -n.
C9_ExistingClipsKept ==
  /\ before \subseteq AsMap(clipped)
  /\ \A i \in DOMAIN calls : "-n" \in calls[i].cmd.flags

\* A complete run that invoked the cutter on a clip that was there before
\* the run, and cut another clip.
C9_Witness ==
  /\ status = "done"
  /\ \E i \in DOMAIN calls : \E f \in before : f[1] = calls[i].cmd.out
  /\ AsMap(clipped) # before

\* ----------------------------------------------- generate_dataset claims
SpecBases == {splitext(n)[1] : n \in Names(specs)}

AudioBases == {splitext(n)[1] : n \in Names(clipped)}

RecordsOf(b) ==
  {i \in DOMAIN container.records : container.records[i].clip_name = b}

\* C2: when generate_dataset has completed, the container holds exactly one
\* record for every base filename found in both directories, made of a spec
\* file and an audio file of that base name, and none for a base filename
\* found in one directory only; and a run raises only on a spec file that
\* is no JSON and has clipped audio.
C2_JoinComplete ==
  /\ status = "done" =>
       \A b \in SpecBases \cup AudioBases :
         IF b \in SpecBases \cap AudioBases
         THEN /\ Cardinality(RecordsOf(b)) = 1
              /\ \A i \in RecordsOf(b) :
                   /\ container.records[i].spec_filename \in Names(specs)
                   /\ splitext(container.records[i].spec_filename)[1] = b
                   /\ container.records[i].audio_filename \in Names(clipped)
                   /\ splitext(container.records[i].audio_filename)[1] = b
         ELSE RecordsOf(b) = {}
  /\ status = "done" =>
       Len(container.records) = Cardinality(SpecBases \cap AudioBases)
  /\ status = "raised" =>
       \E s \in DOMAIN specs :
         /\ ~IsJson(specs[s].content)
         /\ splitext(specs[s].name)[1] \in AudioBases

\* A complete run over directories with a base filename held by two spec
\* files and an audio file, and a base filename held by an audio file only.
C2_Witness ==
  /\ status = "done"
  /\ \E b \in SpecBases \cap AudioBases :
       Cardinality({n \in Names(specs) : splitext(n)[1] = b}) = 2
  /\ AudioBases \ SpecBases # {}

\* ------------------------------------------------- key derivation claims
\* The pieces of s between the separators sep.
RECURSIVE Split(_, _)
Split(s, sep) ==
  IF \A i \in DOMAIN s : s[i] # sep THEN <<s>>
  ELSE LET k == CHOOSE i \in DOMAIN s :
                  s[i] = sep /\ \A j \in 1..(i - 1) : s[j] # sep
       IN  <<SubSeq(s, 1, k - 1)>> \o Split(SubSeq(s, k + 1, Len(s)), sep)

IsDigit(c) == \E d \in 0..9 : Digit(d) = c

DigitValue(c) == CHOOSE d \in 0..9 : Digit(d) = c

RECURSIVE Number(_)
Number(digits) ==
  IF digits = <<>> THEN 0
  ELSE Number(SubSeq(digits, 1, Len(digits) - 1)) * 10
         + DigitValue(digits[Len(digits)])

\* The text is a number with two decimals.
IsFixed2(text) ==
  /\ Len(text) >= 4
  /\ text[Len(text) - 2] = "."
  /\ \A i \in DOMAIN text : i # Len(text) - 2 => IsDigit(text[i])

\* Its value, in milliseconds.
Fixed2Value(text) ==
  (Number(SubSeq(text, 1, Len(text) - 3)) * 100
     + Number(SubSeq(text, Len(text) - 1, Len(text)))) * 10

\* Decoding a name into its three comma-separated components; <<>> when
\* the name is not of three components, the last two of them numbers.
parse_identity(name) ==
  LET parts == Split(name, ",")
  IN  IF Len(parts) = 3 /\ IsFixed2(parts[2]) /\ IsFixed2(parts[3])
      THEN <<parts[1], Fixed2Value(parts[2]), Fixed2Value(parts[3])>>
      ELSE <<>>

\* round(t, 2), in milliseconds.
Round2(ms) == ((ms + 5) \div 10) * 10

\* The descriptors whose spec file this run has written, in order.
WroteClips == SelectSeq(seen, LAMBDA e : e.wrote)

RoundTrips(k) ==
  LET src == WroteClips[k].clip.audio_source
      identity == <<src.youtube_id, Round2(src.start_time), Round2(src.end_time)>>
  IN  /\ parse_identity(printed[k]) = identity
      /\ parse_identity(splitext(written[k])[1]) = identity

SpecOfCall(i) == Read(specs, calls[i].spec)[1]

\* C12: the source file of every cutter invocation is a file of <raw_audio>
\* whose name without its extension is the spec's youtube_id, the first
\* such file of the enumeration, and the clip has that file's extension.
C12_SourceIsExactMatch ==
  \A i \in DOMAIN calls :
    LET youtube_id == SpecOfCall(i).audio_source.youtube_id
        exact == SelectSeq(raw_audio, LAMBDA f : splitext(f)[1] = youtube_id)
    IN  /\ exact # <<>>
        /\ calls[i].cmd.i = exact[1]
        /\ calls[i].cmd.out = ClipFilename(SpecOfCall(i)) \o splitext(exact[1])[2]

\* ------------------------------------------------ forms of the audio source
\* The same file names given the other way: the lines of a manifest for the
\* entries of a directory, the entries of a directory for the lines of a
\* manifest.
OtherForm(a) ==
  IF a.kind = "dir"
  THEN [kind |-> "file",
        entries |-> [i \in DOMAIN a.entries |-> a.entries[i] \o <<"\n">>]]
  ELSE [kind |-> "dir",
        entries |-> [i \in DOMAIN a.entries |->
                       SubSeq(a.entries[i], 1, Len(a.entries[i]) - 1)]]

\* C13: the available names a run has resolved from <audio> are the names
\* the same file names resolve to when given in the other form (directory
\* for manifest, manifest for directory), and the descriptors the run has
\* written are those eligible under the names of the other form.
C13_SameNamesEitherForm ==
  run >= 1 =>
    /\ Range(audio_names) = Range(AudioNames(OtherForm(audio)))
    /\ \A i \in DOMAIN seen :
         seen[i].wrote <=> Eligible(seen[i].clip, AudioNames(OtherForm(audio)))

\* ------------------------------------------------------- codec parameters
\* C14: a cutter invocation carries the vorbis parameters (-codec:a
\* libvorbis -strict experimental) if and only if the raw audio file it
\* reads, and so the clip it is to write, has the extension ogg.
C14_VorbisIffOgg ==
  \A i \in DOMAIN calls :
    (calls[i].cmd.codec = <<"-codec:a", "libvorbis", "-strict", "experimental">>)
      <=> /\ splitext(calls[i].cmd.i)[2] = <<".", "ogg">>
          /\ splitext(calls[i].cmd.out)[2] = <<".", "ogg">>

\* ------------------------------------------------- the container's writer
Occurrences(ev, e) == {i \in DOMAIN ev : ev[i] = e}

\* C15: in a generate_dataset run the container is opened exactly once,
\* before anything else; each record of the container was appended by one
\* write while it was open; it is closed at most once, as the last thing
\* the run does and only when no base filename is left to visit, so that
\* nothing is written after the close; and a run that has reached its end
\* has closed it.
C15_OpenWriteClose ==
  events # <<>> =>
    /\ Occurrences(events, "open") = {1}
    /\ Cardinality(Occurrences(events, "write")) = Len(container.records)
    /\ Occurrences(events, "close") \subseteq {Len(events)}
    /\ Occurrences(events, "close") # {} => clip_names = <<>> /\ status = "done"
    /\ status = "running" => Occurrences(events, "close") = {}
    /\ status = "done" => events[Len(events)] = "close"

\* A run that has reached its end after a write and a skipped base filename.
C15_Witness ==
  /\ status = "done"
  /\ events = <<"open", "write", "close">>
  /\ Len(printed) = 2

\* ------------------------------------------------------------ cross-stage
BaseOf(filename) == splitext(filename)[1]

\* The specs generate_specs has written whose raw audio the cutter has cut.
CutSpecs ==
  {n \in Names(specs) :
     \E i \in DOMAIN calls : calls[i].spec = n /\ calls[i].returncode = 0}

\* C16: the clip file clip_audio derives from the stored content of a spec
\* file generate_specs has written has the base filename of that spec
\* file, in the command of every cutter call and for every spec with raw
\* audio, once its content is written; and once the three stages have run in this order, the last one
\* to its end, the container holds exactly one record for every spec whose
\* cut succeeded, made of the spec file and of its clip.
C16_SameBaseOneRecord ==
  /\ \A i \in DOMAIN calls : BaseOf(calls[i].cmd.out) = BaseOf(calls[i].spec)
  /\ \A i \in DOMAIN specs :
       (/\ IsJson(specs[i].content)
        /\ glob(raw_audio, specs[i].content[1].audio_source.youtube_id) # <<>>) =>
         BaseOf(Command(specs[i].content[1], raw_audio).out) = BaseOf(specs[i].name)
  /\ (Len(history) = 3 /\ history[3].status = "done") =>
       \A n \in CutSpecs :
         /\ Cardinality({k \in DOMAIN container.records :
                           container.records[k].clip_name = BaseOf(n)}) = 1
         /\ \E k \in DOMAIN container.records :
              /\ container.records[k].spec_filename = n
              /\ BaseOf(container.records[k].audio_filename) = BaseOf(n)

\* The three stages have run to their ends over two descriptors of
\* different names, the times of one of them rounded in its name, and the
\* container holds a record for each.
C16_Witness ==
  /\ Len(history) = 3
  /\ \A k \in 1..3 : history[k].status = "done"
  /\ Cardinality(CutSpecs) = 2
  /\ Len(container.records) = 2
  /\ \E i \in DOMAIN specs :
       /\ specs[i].name \in CutSpecs
       /\ specs[i].content[1].audio_source.start_time = 1004

====
